---------------------------- MODULE Spec2Model ----------------------------
(***************************************************************************)
(* A2A protocol demo (a2a_demo.py): agents with AgentCards, the discovery  *)
(* handshake, the task request/response exchange and the orchestrator's    *)
(* research -> analyze -> report workflow.                                 *)
(*                                                                         *)
(* Python values are modelled as follows.  A dataclass instance and a JSON *)
(* object are records; Optional[T] is a tuple of length at most one        *)
(* (None is <<>>, a present value v is <<v>>); a dict is a function whose  *)
(* DOMAIN is its key set; a raised exception is a record with raised =     *)
(* TRUE carrying str(e).                                                   *)
(***************************************************************************)
EXTENDS Integers, Sequences, FiniteSets, TLC

None == <<>>

Some(v) == <<v>>

\* dict.get(key, default)
Get(d, key, default) == IF key \in DOMAIN d THEN d[key] ELSE default

\* as Put, leaving a key that is present as it is (dict.setdefault)
PutIfAbsent(d, key, value) == IF key \in DOMAIN d THEN d ELSE (key :> value) @@ d

\* d[key] = value on a dict
Put(d, key, value) == (key :> value) @@ d

VARIABLES
    agents,             \* A2AOrchestrator.agents: agent ids in insertion order
    discovered_agents,  \* A2AAgent.discovered_agents of each agent: a dict
    pc,                 \* the coroutine the driver is in, "idle" between calls
    loop,               \* discover_all_agents: the indices <<i, j>>
    http,               \* the outbound HTTP exchange the driver awaits
    run,                \* run_a2a_workflow: its locals and how it ended
    posts,              \* history: the POST /task requests of the current run
    returned,           \* history: what send_task_request returned, per call
    faults,             \* history: discovery exchanges a transport fault broke
    inbound,            \* a POST /task body handled on its own, and the answer
    self_agent_card,    \* A2AAgent.agent_card of each agent
    discovery,          \* what discover_agent returned, while its caller holds it
    replies,            \* history: how each POST /task of the current run ended
    discover_calls,     \* discover_all_agents: the discover_agent calls it made
    coroutines,         \* discovery coroutines running concurrently on one agent
    pure_call,          \* a pure function applied on its own: input and output
    graph,              \* the state-graph workflow of main.py and local_main.py
    tracer              \* local_main.py: the trace log and the traced calls in progress

vars ==
    <<agents, discovered_agents, pc, loop, http, run, posts, returned, faults,
      inbound, self_agent_card, discovery, replies, discover_calls, coroutines,
      pure_call, graph, tracer>>

(***************************************************************************)
(* Static configuration: the three agents main() constructs.               *)
(***************************************************************************)
ResearcherId == "researcher-001"

AnalystId == "analyst-001"

ReporterId == "reporter-001"

AgentIds == {ResearcherId, AnalystId, ReporterId}

ResearcherPort == 8001

AnalystPort == 8002

ReporterPort == 8003

HttpOK == 200

\* what aiohttp answers when a handler raises
HttpServerError == 500

\* a status other than 200 from a peer that is up but not serving
HttpUnavailable == 503

\* f"http://localhost:{port}"
LocalUrl(port) ==
    CASE port = ResearcherPort -> "http://localhost:8001"
      [] port = AnalystPort -> "http://localhost:8002"
      [] port = ReporterPort -> "http://localhost:8003"

\* the AgentCard built by each subclass's __init__
ResearcherCard ==
    [agent_id |-> ResearcherId, name |-> "Research Agent",
     description |-> "Conducts research on given topics", version |-> "1.0.0",
     capabilities |-> <<"research", "fact-finding", "web-search">>,
     communication_protocols |-> <<"A2A-v1">>,
     endpoint |-> LocalUrl(ResearcherPort),
     authentication |-> None, metadata |-> None]

AnalystCard ==
    [agent_id |-> AnalystId, name |-> "Analysis Agent",
     description |-> "Analyzes research data and provides insights",
     version |-> "1.0.0",
     capabilities |-> <<"analysis", "insights", "data-processing">>,
     communication_protocols |-> <<"A2A-v1">>,
     endpoint |-> LocalUrl(AnalystPort),
     authentication |-> None, metadata |-> None]

ReporterCard ==
    [agent_id |-> ReporterId, name |-> "Report Agent",
     description |-> "Creates reports from analysis data", version |-> "1.0.0",
     capabilities |-> <<"reporting", "document-generation", "summarization">>,
     communication_protocols |-> <<"A2A-v1">>,
     endpoint |-> LocalUrl(ReporterPort),
     authentication |-> None, metadata |-> None]

\* the card the subclass's __init__ hands to A2AAgent.__init__
ConfiguredCard(a) ==
    CASE a = ResearcherId -> ResearcherCard
      [] a = AnalystId -> AnalystCard
      [] a = ReporterId -> ReporterCard

\* self.agent_card of agent a
agent_card(a) == self_agent_card[a]

\* x in list
In(x, list) == \E k \in 1..Len(list) : list[k] = x

(***************************************************************************)
(* The dataclasses and their wire form (asdict, then the constructor).     *)
(***************************************************************************)
AgentCardFields ==
    {"agent_id", "name", "description", "version", "capabilities",
     "communication_protocols", "endpoint", "authentication", "metadata"}

AgentCardRequired == AgentCardFields \ {"authentication", "metadata"}

TaskRequestFields ==
    {"task_id", "requesting_agent", "target_agent", "task_type", "parameters",
     "timestamp", "callback_url"}

TaskRequestRequired == TaskRequestFields \ {"callback_url"}

TaskResponseFields ==
    {"task_id", "responding_agent", "status", "result", "error", "timestamp"}

TaskResponseRequired == {"task_id", "responding_agent", "status"}

\* dataclasses.asdict: one key per field
asdict(obj) == [f \in DOMAIN obj |-> obj[f]]

\* as FromDict, taking the required keywords only and leaving every other
\* field at its default
FromDictRequiredOnly(data, fields, required) ==
    IF DOMAIN data \subseteq fields /\ required \subseteq DOMAIN data
    THEN [raised |-> FALSE,
          value |-> [f \in fields |-> IF f \in required THEN data[f] ELSE None]]
    ELSE [raised |-> TRUE, message |-> <<"TypeError">>]

\* the dataclass constructor on keyword arguments: TypeError on an unexpected
\* or a missing required keyword, a field left out takes its default None
FromDict(data, fields, required) ==
    IF DOMAIN data \subseteq fields /\ required \subseteq DOMAIN data
    THEN [raised |-> FALSE, value |-> [f \in fields |-> Get(data, f, None)]]
    ELSE [raised |-> TRUE, message |-> <<"TypeError">>]

AgentCard(data) == FromDict(data, AgentCardFields, AgentCardRequired)

TaskRequest(data) == FromDict(data, TaskRequestFields, TaskRequestRequired)

TaskResponse(data) == FromDict(data, TaskResponseFields, TaskResponseRequired)

\* datetime.now().isoformat(): the clock is outside the model
Now == "timestamp"

(***************************************************************************)
(* The completion capability self.llm.invoke: returns a message with       *)
(* .content or raises.  An exception's str() may be empty.                 *)
(***************************************************************************)
Contents == {"c1", "c22"}

\* str(e) of what the completion raises, as a sequence of fragments: the empty
\* sequence is the empty string (str(TimeoutError()) is "")
LlmErrors == {<<"rate limited">>, <<>>}

LlmOutcomes ==
    [raised : {FALSE}, content : Contents] \cup
    [raised : {TRUE}, message : LlmErrors]

(***************************************************************************)
(* process_task of the three subclasses.                                   *)
(***************************************************************************)
\* raise ValueError(f"Unknown task type: {task_request.task_type}")
UnknownTaskType(task_request) ==
    [raised |-> TRUE,
     message |-> <<"Unknown task type: ", task_request.task_type>>]

ResearcherProcessTask(self, task_request, llm) ==
    IF task_request.task_type = "research"
    THEN IF llm.raised
         THEN [raised |-> TRUE, message |-> llm.message]
         ELSE [raised |-> FALSE,
               value |-> [research_data |-> llm.content,
                          topic |-> Get(task_request.parameters, "topic", ""),
                          agent_id |-> agent_card(self).agent_id]]
    ELSE UnknownTaskType(task_request)

AnalystProcessTask(self, task_request, llm) ==
    IF task_request.task_type = "analyze"
    THEN IF llm.raised
         THEN [raised |-> TRUE, message |-> llm.message]
         ELSE [raised |-> FALSE,
               value |-> [analysis_result |-> llm.content,
                          source_data_length |->
                              Len(Get(task_request.parameters, "research_data", "")),
                          agent_id |-> agent_card(self).agent_id]]
    ELSE UnknownTaskType(task_request)

ReporterProcessTask(self, task_request, llm) ==
    IF task_request.task_type = "report"
    THEN IF llm.raised
         THEN [raised |-> TRUE, message |-> llm.message]
         ELSE [raised |-> FALSE,
               value |-> [final_report |-> llm.content,
                          report_length |-> Len(llm.content),
                          agent_id |-> agent_card(self).agent_id]]
    ELSE UnknownTaskType(task_request)

process_task(self, task_request, llm) ==
    CASE self = ResearcherId -> ResearcherProcessTask(self, task_request, llm)
      [] self = AnalystId -> AnalystProcessTask(self, task_request, llm)
      [] self = ReporterId -> ReporterProcessTask(self, task_request, llm)

(***************************************************************************)
(* handle_task_request: the HTTP response to POST /task with JSON body     *)
(* data.  The TaskRequest constructor is outside the try block, so a malformed     *)
(* body is a 500; everything process_task raises is caught.                *)
(***************************************************************************)
\* as SuccessResponse, naming the request's target_agent as the responder
SuccessResponseByTarget(self, task_request, result) ==
    [task_id |-> task_request.task_id,
     responding_agent |-> task_request.target_agent,
     status |-> "success", result |-> Some(result), error |-> None,
     timestamp |-> Some(Now)]

SuccessResponse(self, task_request, result) ==
    [task_id |-> task_request.task_id,
     responding_agent |-> agent_card(self).agent_id,
     status |-> "success", result |-> Some(result), error |-> None,
     timestamp |-> Some(Now)]

\* as ErrorResponse, reporting a raised handler as still in progress
ErrorResponseInProgress(self, task_request, message) ==
    [task_id |-> task_request.task_id,
     responding_agent |-> agent_card(self).agent_id,
     status |-> "in_progress", result |-> None, error |-> Some(message),
     timestamp |-> Some(Now)]

ErrorResponse(self, task_request, message) ==
    [task_id |-> task_request.task_id,
     responding_agent |-> agent_card(self).agent_id,
     status |-> "error", result |-> None, error |-> Some(message),
     timestamp |-> Some(Now)]

\* as handle_task_request, without the try block around process_task
handle_task_request_uncaught(self, data, llm) ==
    LET parsed == TaskRequest(data) IN
    IF parsed.raised \/ process_task(self, parsed.value, llm).raised
    THEN [raised |-> FALSE, status |-> HttpServerError, body |-> None]
    ELSE [raised |-> FALSE, status |-> HttpOK,
          body |-> Some(asdict(SuccessResponse(self, parsed.value,
                       process_task(self, parsed.value, llm).value)))]

handle_task_request(self, data, llm) ==
    LET parsed == TaskRequest(data) IN
    IF parsed.raised
    THEN [raised |-> FALSE, status |-> HttpServerError, body |-> None]
    ELSE LET task_request == parsed.value
             outcome == process_task(self, task_request, llm)
         IN  [raised |-> FALSE, status |-> HttpOK,
              body |-> Some(asdict(
                  IF outcome.raised
                  THEN ErrorResponse(self, task_request, outcome.message)
                  ELSE SuccessResponse(self, task_request, outcome.value)))]

(***************************************************************************)
(* Peers outside the repository.  An endpoint that is not one of the three *)
(* agents' is served by a foreign peer, which answers what it likes and    *)
(* may post any card to an agent's /discover.                              *)
(***************************************************************************)
RogueUrl == "http://rogue.example"

MalformedUrl == "not a url"

GhostId == "ghost-000"

\* a well-formed card that claims agent a's identity at the foreign endpoint
ForgedCard(a) == [agent_card(a) EXCEPT !.endpoint = RogueUrl]

EmptyCapabilitiesCard ==
    [agent_id |-> GhostId, name |-> "Ghost", description |-> "", version |-> "0",
     capabilities |-> <<>>, communication_protocols |-> <<"A2A-v1">>,
     endpoint |-> RogueUrl, authentication |-> None, metadata |-> None]

MalformedEndpointCard ==
    [EmptyCapabilitiesCard EXCEPT !.capabilities = <<"research">>,
                                  !.endpoint = MalformedUrl]

ForeignCards(a) == {ForgedCard(a), EmptyCapabilitiesCard, MalformedEndpointCard}

OwnCards == {agent_card(a) : a \in AgentIds}

\* the most cards of foreign origin the registries hold together
MaxForeign == 1

\* the most discovery exchanges a transport fault breaks
MaxFaults == 1

NoHttp == [phase |-> "none"]

NoRun ==
    [state |-> "NotStarted", query |-> None, research_data |-> None,
     analysis_data |-> None, result |-> None, failure |-> None]

NoInbound == [phase |-> "none"]

Init ==
    /\ agents = <<>>
    /\ discovered_agents = [a \in AgentIds |-> <<>>]
    /\ pc = "idle"
    /\ loop = <<0, 0>>
    /\ http = NoHttp
    /\ run = NoRun
    /\ posts = <<>>
    /\ returned = <<>>
    /\ faults = 0
    /\ inbound = NoInbound
    /\ self_agent_card = [a \in AgentIds |-> ConfiguredCard(a)]
    /\ discovery = None
    /\ replies = <<>>
    /\ discover_calls = 0
    /\ coroutines = <<>>
    /\ tracer = None
    /\ pure_call = None
    /\ graph = None

\* the agents whose server was started by add_agent
Running == {agents[k] : k \in 1..Len(agents)}

\* the running agent listening at url, if any
ServedBy(url) == {b \in Running : agent_card(b).endpoint = url}

ForeignEntries ==
    Cardinality({<<a, k>> \in AgentIds \X (AgentIds \cup {GhostId}) :
                    /\ k \in DOMAIN discovered_agents[a]
                    /\ discovered_agents[a][k] \notin OwnCards})

\* an exception inside the aiohttp call: refused, reset, timed out, bad URL
TransportError == [raised |-> TRUE, status |-> 0, body |-> None]

(***************************************************************************)
(* add_agent                                                               *)
(***************************************************************************)
add_agent(a) ==
    /\ pc = "idle"
    /\ a \notin Running
    /\ agents' = Append(agents, a)
    /\ UNCHANGED <<discovered_agents, pc, loop, http, run, posts, returned, faults, inbound,
                 self_agent_card, tracer, discover_calls, coroutines,
                 pure_call, graph, discovery, replies>>

(***************************************************************************)
(* GET /agent-card and GET /health: read-only routes of a running agent.   *)
(***************************************************************************)
\* as get_agent_card, answering with the public part of the card only
get_agent_card_public(self) ==
    [raised |-> FALSE, status |-> HttpOK,
     body |-> Some([agent_id |-> agent_card(self).agent_id,
                    name |-> agent_card(self).name,
                    capabilities |-> agent_card(self).capabilities])]

\* get_agent_card: the HTTP response
get_agent_card(self) ==
    [raised |-> FALSE, status |-> HttpOK, body |-> Some(asdict(agent_card(self)))]

\* health_check: the HTTP response
health_check(self) ==
    [raised |-> FALSE, status |-> HttpOK,
     body |-> Some([status |-> "healthy", agent |-> agent_card(self).name])]

Routes == {"/agent-card", "/health"}

\* a client's GET of a route of running agent a, up to the answer
GetRequest(a, path) ==
    /\ pc = "idle"
    /\ a \in Running
    /\ pc' = "get"
    /\ http' = [phase |-> "got", server |-> a, path |-> path,
                reply |-> IF path = "/agent-card" THEN get_agent_card(a)
                          ELSE health_check(a)]
    /\ UNCHANGED <<agents, discovered_agents, loop, run, posts, returned, faults,
                   inbound, self_agent_card, tracer, discover_calls, coroutines,
                 pure_call, graph, discovery, replies>>

\* the client has the answer
GetReturn ==
    /\ pc = "get"
    /\ pc' = "idle"
    /\ http' = NoHttp
    /\ UNCHANGED <<agents, discovered_agents, loop, run, posts, returned, faults,
                   inbound, self_agent_card, tracer, discover_calls, coroutines,
                 pure_call, graph, discovery, replies>>

(***************************************************************************)
(* Discovery.  handle_discovery is the server side, discover_agent the     *)
(* client side; the registry write of each is one dict assignment.         *)
(***************************************************************************)
\* as handle_discovery, keeping the registry by the card's name
handle_discovery_by_name(self, data, registry) ==
    LET parsed == AgentCard(data) IN
    IF parsed.raised
    THEN [registry |-> registry,
          reply |-> [raised |-> FALSE, status |-> HttpServerError, body |-> None]]
    ELSE [registry |-> Put(registry, parsed.value.name, parsed.value),
          reply |-> [raised |-> FALSE, status |-> HttpOK,
                     body |-> Some([status |-> "discovered",
                                    agent_card |-> asdict(agent_card(self))])]]

\* as handle_discovery, acknowledging with the card it was sent
handle_discovery_echo(self, data, registry) ==
    LET parsed == AgentCard(data) IN
    IF parsed.raised
    THEN [registry |-> registry,
          reply |-> [raised |-> FALSE, status |-> HttpServerError, body |-> None]]
    ELSE [registry |-> Put(registry, parsed.value.agent_id, parsed.value),
          reply |-> [raised |-> FALSE, status |-> HttpOK,
                     body |-> Some([status |-> "discovered",
                                    agent_card |-> asdict(parsed.value)])]]

\* as handle_discovery, updating the endpoint of an entry that is present
\* in place of replacing the entry
handle_discovery_merging(self, data, registry) ==
    LET parsed == AgentCard(data) IN
    IF parsed.raised
    THEN [registry |-> registry,
          reply |-> [raised |-> FALSE, status |-> HttpServerError, body |-> None]]
    ELSE LET id == parsed.value.agent_id
             entry == IF id \in DOMAIN registry
                      THEN [registry[id] EXCEPT !.endpoint = parsed.value.endpoint]
                      ELSE parsed.value
         IN [registry |-> Put(registry, id, entry),
             reply |-> [raised |-> FALSE, status |-> HttpOK,
                        body |-> Some([status |-> "discovered",
                                       agent_card |-> asdict(agent_card(self))])]]

\* as handle_discovery, answering with its card without storing the
\* requester's
handle_discovery_stateless(self, data, registry) ==
    LET parsed == AgentCard(data) IN
    IF parsed.raised
    THEN [registry |-> registry,
          reply |-> [raised |-> FALSE, status |-> HttpServerError, body |-> None]]
    ELSE [registry |-> registry,
          reply |-> [raised |-> FALSE, status |-> HttpOK,
                     body |-> Some([status |-> "discovered",
                                    agent_card |-> asdict(agent_card(self))])]]

\* handle_discovery on agent self with JSON body data: the registry after it
\* and the HTTP response
handle_discovery(self, data, registry) ==
    LET parsed == AgentCard(data) IN
    IF parsed.raised
    THEN [registry |-> registry,
          reply |-> [raised |-> FALSE, status |-> HttpServerError, body |-> None]]
    ELSE [registry |-> Put(registry, parsed.value.agent_id, parsed.value),
          reply |-> [raised |-> FALSE, status |-> HttpOK,
                     body |-> Some([status |-> "discovered",
                                    agent_card |-> asdict(agent_card(self))])]]

\* as discover_agent_return, keeping a placeholder entry for a peer that
\* answered with something other than a card
discover_agent_return_placeholder(reply, registry) ==
    IF reply.raised \/ reply.status # HttpOK
    THEN [registry |-> registry, value |-> None]
    ELSE LET data == reply.body[1] IN
         IF "agent_card" \notin DOMAIN data
         THEN [registry |-> Put(registry, GhostId, EmptyCapabilitiesCard),
               value |-> None]
         ELSE LET parsed == AgentCard(data.agent_card) IN
              IF parsed.raised
              THEN [registry |-> registry, value |-> None]
              ELSE [registry |-> Put(registry, parsed.value.agent_id, parsed.value),
                    value |-> Some(parsed.value)]

\* discover_agent after the response arrived: the registry after it and the
\* value returned
discover_agent_return(reply, registry) ==
    IF reply.raised \/ reply.status # HttpOK
    THEN [registry |-> registry, value |-> None]
    ELSE LET data == reply.body[1] IN
         IF "agent_card" \notin DOMAIN data
         THEN [registry |-> registry, value |-> None]
         ELSE LET parsed == AgentCard(data.agent_card) IN
              IF parsed.raised
              THEN [registry |-> registry, value |-> None]
              ELSE [registry |-> Put(registry, parsed.value.agent_id, parsed.value),
                    value |-> Some(parsed.value)]

\* what a foreign peer may answer to POST /discover from agent a
RogueDiscoveryReplies(a) ==
    {[raised |-> FALSE, status |-> HttpOK,
      body |-> Some([status |-> "discovered", agent_card |-> asdict(c)])] :
        c \in ForeignCards(a)}
    \cup {[raised |-> FALSE, status |-> HttpOK, body |-> Some([status |-> "busy"])],
          [raised |-> FALSE, status |-> 404, body |-> None]}

\* agent a posts its card to target_url/discover and the request is served:
\* up to the point where discover_agent awaits the response.  A transport
\* fault either keeps the request from the server or loses the server's
\* answer; where nobody listens the connection is refused.
Exchange(a, target_url) ==
    LET Await(r) == [phase |-> "reply", client |-> a, url |-> target_url, reply |-> r]
        Fault == /\ faults < MaxFaults
                 /\ faults' = faults + 1
                 /\ http' = Await(TransportError)
    IN
    \/ \E b \in ServedBy(target_url) :
         LET served == handle_discovery(b, asdict(agent_card(a)), discovered_agents[b]) IN
         \/ /\ discovered_agents' = [discovered_agents EXCEPT ![b] = served.registry]
            /\ http' = Await(served.reply)
            /\ UNCHANGED faults
         \/ /\ discovered_agents' = [discovered_agents EXCEPT ![b] = served.registry]
            /\ Fault
         \/ /\ UNCHANGED discovered_agents
            /\ Fault
    \/ /\ target_url = RogueUrl
       /\ ForeignEntries < MaxForeign
       /\ \E r \in RogueDiscoveryReplies(a) : http' = Await(r)
       /\ UNCHANGED <<discovered_agents, faults>>
    \/ /\ target_url # RogueUrl
       /\ ServedBy(target_url) = {}
       /\ http' = Await(TransportError)
       /\ UNCHANGED <<discovered_agents, faults>>

\* the response (or the exception) reaches discover_agent, which returns
Receive ==
    LET a == http.client
        done == discover_agent_return(http.reply, discovered_agents[a])
    IN  /\ discovered_agents' = [discovered_agents EXCEPT ![a] = done.registry]
        /\ http' = NoHttp

\* a direct call of agent a's discover_agent(target_url)
DiscoverAgentCall(a, target_url) ==
    /\ pc = "idle"
    /\ a \in Running
    /\ pc' = "discover_agent"
    /\ Exchange(a, target_url)
    /\ UNCHANGED <<agents, loop, run, posts, returned, inbound,
                 self_agent_card, tracer, discover_calls, coroutines,
                 pure_call, graph, discovery, replies>>

\* discover_agent returns: the caller holds the card, or None
DiscoverAgentReturn ==
    /\ pc = "discover_agent"
    /\ http.phase = "reply"
    /\ Receive
    /\ pc' = "discover_agent_returned"
    /\ discovery' =
         Some([client |-> http.client, url |-> http.url, reply |-> http.reply,
               value |-> discover_agent_return(
                             http.reply, discovered_agents[http.client]).value])
    /\ UNCHANGED <<agents, loop, run, posts, returned, faults, inbound,
                 self_agent_card, tracer, discover_calls, coroutines,
                 pure_call, graph, replies>>

\* the caller goes on and drops the value
DiscoverAgentDone ==
    /\ pc = "discover_agent_returned"
    /\ pc' = "idle"
    /\ discovery' = None
    /\ UNCHANGED <<agents, discovered_agents, loop, http, run, posts, returned,
                   faults, inbound, self_agent_card, tracer, discover_calls, coroutines,
                 pure_call, graph, replies>>

\* a foreign client posts a card to agent a's /discover
ForeignDiscover(a, card) ==
    /\ a \in Running
    /\ ForeignEntries < MaxForeign
    /\ discovered_agents' =
         [discovered_agents EXCEPT
            ![a] = handle_discovery(a, asdict(card), discovered_agents[a]).registry]
    /\ UNCHANGED <<agents, pc, loop, http, run, posts, returned, faults, inbound,
                 self_agent_card, tracer, discover_calls, coroutines,
                 pure_call, graph, discovery, replies>>

(***************************************************************************)
(* discover_all_agents: for i, for j, if i != j, agent i discovers agent j *)
(***************************************************************************)
\* as NextPair, without the test i != j
NextPairWithSelf(i, j, n) ==
    LET later == {p \in (1..n) \X (1..n) :
                    \/ p[1] > i
                    \/ p[1] = i /\ p[2] > j}
    IN  IF later = {} THEN <<0, 0>>
        ELSE CHOOSE p \in later :
                \A q \in later : p[1] < q[1] \/ (p[1] = q[1] /\ p[2] <= q[2])

\* the pair after <<i, j>> in the double loop over n agents, <<0, 0>> at the end
NextPair(i, j, n) ==
    LET later == {p \in (1..n) \X (1..n) :
                    /\ p[1] # p[2]
                    /\ \/ p[1] > i
                       \/ p[1] = i /\ p[2] > j}
    IN  IF later = {} THEN <<0, 0>>
        ELSE CHOOSE p \in later :
                \A q \in later : p[1] < q[1] \/ (p[1] = q[1] /\ p[2] <= q[2])

DiscoverAllStart ==
    /\ pc = "idle"
    /\ NextPair(1, 0, Len(agents)) # <<0, 0>>
    /\ pc' = "discover_all_agents"
    /\ loop' = NextPair(1, 0, Len(agents))
    /\ discover_calls' = 0
    /\ UNCHANGED <<agents, discovered_agents, http, run, posts, returned, faults, inbound,
                 self_agent_card, tracer, coroutines,
                 pure_call, graph, discovery, replies>>

DiscoverAllPost ==
    /\ pc = "discover_all_agents"
    /\ http.phase = "none"
    /\ Exchange(agents[loop[1]], agent_card(agents[loop[2]]).endpoint)
    /\ discover_calls' = discover_calls + 1
    /\ UNCHANGED <<agents, pc, loop, run, posts, returned, inbound,
                 self_agent_card, tracer, coroutines,
                 pure_call, graph, discovery, replies>>

DiscoverAllReceive ==
    /\ pc = "discover_all_agents"
    /\ http.phase = "reply"
    /\ Receive
    /\ loop' = NextPair(loop[1], loop[2], Len(agents))
    /\ pc' = IF loop' = <<0, 0>> THEN "idle" ELSE pc
    /\ discover_calls' = IF loop' = <<0, 0>> THEN 0 ELSE discover_calls
    /\ UNCHANGED <<agents, run, posts, returned, faults, inbound,
                 self_agent_card, tracer, coroutines,
                 pure_call, graph, discovery, replies>>

(***************************************************************************)
(* send_task_request, client side.                                         *)
(***************************************************************************)
\* str(uuid.uuid4()): a value no earlier request of the run carries
uuid4 == Len(posts) + 1

\* as send_task_request, falling back on the target's own endpoint when the
\* target is not in discovered_agents
send_task_request_unchecked(self, target_agent_id, task_type, parameters) ==
    Some([url |-> IF target_agent_id \in DOMAIN discovered_agents[self]
                  THEN discovered_agents[self][target_agent_id].endpoint
                  ELSE agent_card(target_agent_id).endpoint,
          data |-> asdict([task_id |-> uuid4,
                           requesting_agent |-> agent_card(self).agent_id,
                           target_agent |-> target_agent_id,
                           task_type |-> task_type,
                           parameters |-> parameters,
                           timestamp |-> Now,
                           callback_url |-> None])])

\* send_task_request up to the await of the POST: None when the target is not
\* in discovered_agents (nothing is sent), else the request and its URL
send_task_request(self, target_agent_id, task_type, parameters) ==
    IF target_agent_id \notin DOMAIN discovered_agents[self]
    THEN None
    ELSE Some([url |-> discovered_agents[self][target_agent_id].endpoint,
               data |-> asdict([task_id |-> uuid4,
                                requesting_agent |-> agent_card(self).agent_id,
                                target_agent |-> target_agent_id,
                                task_type |-> task_type,
                                parameters |-> parameters,
                                timestamp |-> Now,
                                callback_url |-> None])])

\* as send_task_return, treating a reported error like a failed exchange
send_task_return_success_only(reply) ==
    IF reply.raised \/ reply.status # HttpOK
    THEN None
    ELSE LET parsed == TaskResponse(reply.body[1]) IN
         IF parsed.raised \/ parsed.value.status = "error"
         THEN None
         ELSE Some(parsed.value)

\* send_task_request after the response arrived: the value it returns
send_task_return(reply) ==
    IF reply.raised \/ reply.status # HttpOK
    THEN None
    ELSE LET parsed == TaskResponse(reply.body[1]) IN
         IF parsed.raised THEN None ELSE Some(parsed.value)

ForgedResult ==
    [research_data |-> "forged", analysis_result |-> "forged",
     final_report |-> "forged"]

\* what a foreign peer may answer to POST /task with body data: a success
\* under another task_id, in_progress with a partial result, a success that
\* carries an error beside its result, or a status other than 200
RogueTaskReplies(data) ==
    {[raised |-> FALSE, status |-> HttpOK,
      body |-> Some([task_id |-> data.task_id + 1, responding_agent |-> "rogue",
                     status |-> "success", result |-> Some(ForgedResult),
                     error |-> None, timestamp |-> Some(Now)])],
     [raised |-> FALSE, status |-> HttpOK,
      body |-> Some([task_id |-> data.task_id, responding_agent |-> "rogue",
                     status |-> "in_progress", result |-> Some(ForgedResult),
                     error |-> None, timestamp |-> Some(Now)])],
     [raised |-> FALSE, status |-> HttpOK,
      body |-> Some([task_id |-> data.task_id, responding_agent |-> "rogue",
                     status |-> "success", result |-> Some(ForgedResult),
                     error |-> Some(<<"partial">>), timestamp |-> Some(Now)])],
     [raised |-> FALSE, status |-> HttpUnavailable, body |-> None]}

\* every way the POST of data to url/task can end for the client
TaskReplies(url, data) ==
    {handle_task_request(b, data, llm) : b \in ServedBy(url), llm \in LlmOutcomes}
    \cup (IF url = RogueUrl THEN RogueTaskReplies(data) ELSE {})
    \cup {TransportError}

(***************************************************************************)
(* run_a2a_workflow                                                        *)
(***************************************************************************)
Queries == {"X"}

\* the loop over self.agents.values() that picks researcher, analyst and
\* reporter: the last agent of each kind wins, and the elif chain gives an
\* agent the first kind it matches only
RECURSIVE ResolveAgents(_, _)
ResolveAgents(list, found) ==
    IF list = <<>> THEN found
    ELSE LET agent == Head(list)
             capabilities == agent_card(agent).capabilities
         IN  ResolveAgents(Tail(list),
                 IF In("research", capabilities)
                 THEN [found EXCEPT !.researcher = Some(agent)]
                 ELSE IF In("analysis", capabilities)
                 THEN [found EXCEPT !.analyst = Some(agent)]
                 ELSE IF In("reporting", capabilities)
                 THEN [found EXCEPT !.reporter = Some(agent)]
                 ELSE found)

Resolved ==
    ResolveAgents(agents, [researcher |-> None, analyst |-> None, reporter |-> None])

\* the three steps: pipeline state, who sends, task_type, the exception text
Steps ==
    <<[state |-> "Researching", role |-> "researcher", task_type |-> "research",
       failed |-> <<"Research task failed">>],
      [state |-> "Analyzing", role |-> "analyst", task_type |-> "analyze",
       failed |-> <<"Analysis task failed">>],
      [state |-> "Reporting", role |-> "reporter", task_type |-> "report",
       failed |-> <<"Reporting task failed">>]>>

StepOf(state) == CHOOSE k \in 1..Len(Steps) : Steps[k].state = state

\* as StepParameters, handing the reporter the research data
StepParametersStale(k, r) ==
    CASE k = 1 -> [topic |-> r.query[1]]
      [] k = 2 -> [research_data |-> r.research_data[1]]
      [] k = 3 -> [analysis_data |-> r.research_data[1]]

\* the parameters the workflow builds for step k from its locals
StepParameters(k, r) ==
    CASE k = 1 -> [topic |-> r.query[1]]
      [] k = 2 -> [research_data |-> r.research_data[1]]
      [] k = 3 -> [analysis_data |-> r.analysis_data[1]]

\* as Accepted, turning away a reported error only
AcceptedUnlessError(response) == response # None /\ response[1].status # "error"

\* the negation of "not response or response.status != 'success'"
Accepted(response) == response # None /\ response[1].status = "success"

\* as MissingAgents, looking at the researcher only
MissingResearcher == Resolved.researcher = None

\* "not all([researcher, analyst, reporter])"
MissingAgents == \E role \in DOMAIN Resolved : Resolved[role] = None

\* as Raise, recording the failure and leaving the state as it is
RaiseInPlace(r, message) == [r EXCEPT !.failure = Some(message)]

\* the raise statements of the workflow
Raise(r, message) == [r EXCEPT !.state = "Failed", !.failure = Some(message)]

\* as IssueStep, posting the request a second time
IssueStepTwice(k, r, got) ==
    LET self == Resolved[Steps[k].role][1]
        sent == send_task_request(self, agent_card(self).agent_id,
                                  Steps[k].task_type, StepParameters(k, r))
    IN  IF sent = None
        THEN /\ run' = Raise(r, Steps[k].failed)
             /\ returned' = Append(got, None)
             /\ http' = NoHttp
             /\ posts' = posts
        ELSE /\ run' = [r EXCEPT !.state = Steps[k].state]
             /\ returned' = got
             /\ http' = [phase |-> "request", client |-> self,
                         url |-> sent[1].url, data |-> sent[1].data]
             /\ posts' = Append(Append(posts, sent[1]), sent[1])

\* as IssueStep, with the researcher sending every step to the agent that
\* has the step's capability
IssueStepFromResearcher(k, r, got) ==
    LET self == Resolved.researcher[1]
        sent == send_task_request(self, agent_card(Resolved[Steps[k].role][1]).agent_id,
                                  Steps[k].task_type, StepParameters(k, r))
    IN  IF sent = None
        THEN /\ run' = Raise(r, Steps[k].failed)
             /\ returned' = Append(got, None)
             /\ http' = NoHttp
             /\ posts' = posts
        ELSE /\ run' = [r EXCEPT !.state = Steps[k].state]
             /\ returned' = got
             /\ http' = [phase |-> "request", client |-> self,
                         url |-> sent[1].url, data |-> sent[1].data]
             /\ posts' = Append(posts, sent[1])

\* step k is issued with locals r: the agent of the step sends the task to
\* its own agent_id.  Either the request is in flight or the step has failed
\* because send_task_request returned None at once.
IssueStep(k, r, got) ==
    LET self == Resolved[Steps[k].role][1]
        sent == send_task_request(self, agent_card(self).agent_id,
                                  Steps[k].task_type, StepParameters(k, r))
    IN  IF sent = None
        THEN /\ run' = Raise(r, Steps[k].failed)
             /\ returned' = Append(got, None)
             /\ http' = NoHttp
             /\ posts' = posts
        ELSE /\ run' = [r EXCEPT !.state = Steps[k].state]
             /\ returned' = got
             /\ http' = [phase |-> "request", client |-> self,
                         url |-> sent[1].url, data |-> sent[1].data]
             /\ posts' = Append(posts, sent[1])

RunStart(query) ==
    /\ pc = "idle"
    /\ pc' = "run_a2a_workflow"
    /\ LET r == [NoRun EXCEPT !.query = Some(query)] IN
       IF MissingAgents
       THEN /\ run' = Raise(r, <<"Missing required agents">>)
            /\ UNCHANGED <<http, posts, returned>>
       ELSE IssueStep(1, r, returned)
    /\ UNCHANGED <<agents, discovered_agents, loop, faults, inbound,
                 self_agent_card, tracer, discover_calls, coroutines,
                 pure_call, graph, discovery, replies>>

\* the key the workflow reads from the result of step k
ResultKey(k) ==
    CASE k = 1 -> "research_data"
      [] k = 2 -> "analysis_result"
      [] k = 3 -> "final_report"

\* as Bind, returning the analysis in the place of the report
BindAnalysisAsReport(k, r, value) ==
    CASE k = 1 -> [r EXCEPT !.research_data = Some(value)]
      [] k = 2 -> [r EXCEPT !.analysis_data = Some(value)]
      [] k = 3 ->
           [r EXCEPT !.state = "Completed",
                     !.result = Some([query |-> r.query[1],
                                      research_data |-> r.research_data[1],
                                      analysis_data |-> r.analysis_data[1],
                                      final_report |-> r.analysis_data[1],
                                      workflow_complete |-> TRUE,
                                      agents_used |-> <<Resolved.researcher[1],
                                                        Resolved.analyst[1],
                                                        Resolved.reporter[1]>>])]

\* the locals after step k's response was accepted
Bind(k, r, value) ==
    CASE k = 1 -> [r EXCEPT !.research_data = Some(value)]
      [] k = 2 -> [r EXCEPT !.analysis_data = Some(value)]
      [] k = 3 ->
           [r EXCEPT !.state = "Completed",
                     !.result = Some([query |-> r.query[1],
                                      research_data |-> r.research_data[1],
                                      analysis_data |-> r.analysis_data[1],
                                      final_report |-> value,
                                      workflow_complete |-> TRUE,
                                      agents_used |-> <<Resolved.researcher[1],
                                                        Resolved.analyst[1],
                                                        Resolved.reporter[1]>>])]

\* the awaited POST /task ends and the workflow runs on to its next await,
\* its return or its raise
RunStep ==
    /\ pc = "run_a2a_workflow"
    /\ http.phase = "request"
    /\ \E reply \in TaskReplies(http.url, http.data) :
         LET k == StepOf(run.state)
             response == send_task_return(reply)
             got == Append(returned, response)
         IN  /\ replies' = Append(replies, reply)
             /\ IF ~Accepted(response)
                THEN /\ run' = Raise(run, Steps[k].failed)
                     /\ returned' = got
                     /\ http' = NoHttp
                     /\ posts' = posts
                ELSE IF response[1].result = None
                THEN /\ run' = Raise(run, <<"TypeError">>)
                     /\ returned' = got
                     /\ http' = NoHttp
                     /\ posts' = posts
                ELSE IF ResultKey(k) \notin DOMAIN response[1].result[1]
                THEN /\ run' = Raise(run, <<"KeyError">>)
                     /\ returned' = got
                     /\ http' = NoHttp
                     /\ posts' = posts
                ELSE LET r == Bind(k, run, response[1].result[1][ResultKey(k)]) IN
                     IF k = Len(Steps)
                     THEN /\ run' = r
                          /\ returned' = got
                          /\ http' = NoHttp
                          /\ posts' = posts
                     ELSE IssueStep(k + 1, r, got)
    /\ UNCHANGED <<agents, discovered_agents, pc, loop, faults, inbound,
                 self_agent_card, tracer, discover_calls, coroutines,
                 pure_call, graph, discovery>>

\* as RunReturn, with the histories of the run kept for the next one
RunReturnKeepingHistory ==
    /\ pc = "run_a2a_workflow"
    /\ run.state \in {"Completed", "Failed"}
    /\ pc' = "idle"
    /\ run' = NoRun
    /\ UNCHANGED <<agents, discovered_agents, loop, http, faults, inbound,
                   self_agent_card, tracer, discover_calls, coroutines, pure_call, graph,
                   discovery, posts, returned, replies>>

\* run_a2a_workflow has returned or raised and main() goes on
RunReturn ==
    /\ pc = "run_a2a_workflow"
    /\ run.state \in {"Completed", "Failed"}
    /\ pc' = "idle"
    /\ run' = NoRun
    /\ posts' = <<>>
    /\ returned' = <<>>
    /\ replies' = <<>>
    /\ UNCHANGED <<agents, discovered_agents, loop, http, faults, inbound,
                 self_agent_card, tracer, discover_calls, coroutines,
                 pure_call, graph, discovery>>

(***************************************************************************)
(* handle_task_request on its own: any client may post any body to /task.  *)
(* The handler reads the body, awaits process_task and answers.            *)
(***************************************************************************)
TaskTypes == {"research", "analyze", "report", "translate"}

ParameterInputs ==
    {<<[topic |-> "X"]>>, <<[research_data |-> "c1"]>>,
     <<[analysis_data |-> "c22"]>>, <<[note |-> "X"]>>}

\* the well-formed bodies: asdict of a TaskRequest
WellFormedBodies ==
    {asdict([task_id |-> id, requesting_agent |-> "client-1", target_agent |-> t,
             task_type |-> ty, parameters |-> p[1], timestamp |-> Now,
             callback_url |-> None]) :
        id \in {1, 2}, t \in AgentIds, ty \in TaskTypes, p \in ParameterInputs}

\* bodies the TaskRequest constructor rejects: a field missing, a key too many
MalformedBodies ==
    {[task_id |-> 1, requesting_agent |-> "client-1"],
     [task_id |-> 1, requesting_agent |-> "client-1", target_agent |-> ResearcherId,
      task_type |-> "research", parameters |-> [topic |-> "X"], timestamp |-> Now,
      priority |-> "high"]}

InitTask ==
    /\ agents = <<>>
    /\ discovered_agents = [a \in AgentIds |-> <<>>]
    /\ pc = "idle"
    /\ loop = <<0, 0>>
    /\ http = NoHttp
    /\ run = NoRun
    /\ posts = <<>>
    /\ returned = <<>>
    /\ faults = 0
    /\ self_agent_card = [a \in AgentIds |-> ConfiguredCard(a)]
    /\ discovery = None
    /\ replies = <<>>
    /\ discover_calls = 0
    /\ coroutines = <<>>
    /\ tracer = None
    /\ pure_call = None
    /\ graph = None
    /\ \E self \in AgentIds :
         \/ \E data \in WellFormedBodies :
              inbound = [phase |-> "received", self |-> self, data |-> <<data>>]
         \/ \E data \in MalformedBodies :
              inbound = [phase |-> "received", self |-> self, data |-> <<data>>]

\* "data = await request.json(); task_request = TaskRequest(data...)"
HandleTaskReceive ==
    /\ inbound.phase = "received"
    /\ inbound' =
         IF TaskRequest(inbound.data[1]).raised
         THEN [phase |-> "answered", self |-> inbound.self, data |-> inbound.data,
               outcome |-> None,
               reply |-> handle_task_request(inbound.self, inbound.data[1],
                                             CHOOSE llm \in LlmOutcomes : TRUE)]
         ELSE [phase |-> "processing", self |-> inbound.self, data |-> inbound.data]
    /\ UNCHANGED <<agents, discovered_agents, pc, loop, http, run, posts, returned, faults,
                 self_agent_card, tracer, discover_calls, coroutines,
                 pure_call, graph, discovery, replies>>

\* process_task ends, by a return or a raise, and the handler answers
HandleTaskAnswer ==
    /\ inbound.phase = "processing"
    /\ \E llm \in LlmOutcomes :
         inbound' =
           [phase |-> "answered", self |-> inbound.self, data |-> inbound.data,
            outcome |-> Some(process_task(inbound.self,
                                          TaskRequest(inbound.data[1]).value, llm)),
            reply |-> handle_task_request(inbound.self, inbound.data[1], llm)]
    /\ UNCHANGED <<agents, discovered_agents, pc, loop, http, run, posts, returned, faults,
                 self_agent_card, tracer, discover_calls, coroutines,
                 pure_call, graph, discovery, replies>>

NextTask == HandleTaskReceive \/ HandleTaskAnswer

Next ==
    \/ \E a \in AgentIds : add_agent(a)
    \/ \E a \in AgentIds, path \in Routes : GetRequest(a, path)
    \/ GetReturn
    \/ \E a \in AgentIds, b \in AgentIds : DiscoverAgentCall(a, agent_card(b).endpoint)
    \/ DiscoverAgentReturn
    \/ DiscoverAgentDone
    \/ DiscoverAllStart
    \/ DiscoverAllPost
    \/ DiscoverAllReceive
    \/ \E query \in Queries : RunStart(query)
    \/ RunStep
    \/ RunReturn

\* the three agents with a foreign peer in reach: direct discover_agent calls
\* to an agent's own endpoint or to the foreign one, and cards posted by the
\* foreign peer
NextOpen ==
    \/ \E a \in AgentIds : add_agent(a)
    \/ \E a \in AgentIds, path \in Routes : GetRequest(a, path)
    \/ GetReturn
    \/ \E a \in AgentIds :
         \E url \in {agent_card(a).endpoint, RogueUrl} : DiscoverAgentCall(a, url)
    \/ DiscoverAgentReturn
    \/ DiscoverAgentDone
    \/ \E a \in AgentIds : \E card \in ForeignCards(a) : ForeignDiscover(a, card)
    \/ \E query \in Queries : RunStart(query)
    \/ RunStep
    \/ RunReturn

Spec == Init /\ [][Next]_vars

SpecOpen == Init /\ [][NextOpen]_vars

SpecTask == InitTask /\ [][NextTask]_vars

(***************************************************************************)
(* Properties.                                                             *)
(***************************************************************************)
Body(reply) == reply.body[1]

Last(seq) == seq[Len(seq)]

\* text holds the fragments of part, in order and adjacent
Contains(text, part) ==
    \E i \in 1..(Len(text) - Len(part) + 1) :
        SubSeq(text, i, i + Len(part) - 1) = part

\* C1: whenever process_task raises on a well-formed TaskRequest (an unknown
\* task_type, a failure of the completion capability), the handler answers
\* HTTP 200 with a TaskResponse of status error whose error is the message
\* of what was raised.
C1_HandlerFailureIsErrorResponse ==
    (/\ inbound.phase = "answered"
     /\ inbound.outcome # None
     /\ inbound.outcome[1].raised)
    => /\ ~inbound.reply.raised
       /\ inbound.reply.status = HttpOK
       /\ inbound.reply.body # None
       /\ Body(inbound.reply).status = "error"
       /\ Body(inbound.reply).error = Some(inbound.outcome[1].message)

C1_Witness ==
    /\ inbound.phase = "answered"
    /\ inbound.outcome # None
    /\ inbound.outcome[1].raised
    /\ inbound.outcome[1].message = <<"rate limited">>
    /\ inbound.reply.status = HttpOK

\* a response of send_task_request that does not let the pipeline go on
NonSuccess(response) == response = None \/ response[1].status # "success"

\* C2: in a run, once the task of a step has ended without success (nothing
\* returned, status error, status in_progress), that step is the last one:
\* no request of a later step has been posted, nothing is in flight and the
\* run is Failed.
C2_AbortOnFailure ==
    \A k \in 1..Len(returned) :
        NonSuccess(returned[k]) =>
            /\ Len(returned) = k
            /\ \A j \in 1..Len(posts) :
                  \E i \in 1..k : posts[j].data.task_type = Steps[i].task_type
            /\ http.phase = "none"
            /\ run.state = "Failed"

C2_Witness ==
    /\ Len(returned) = 2
    /\ returned[2] # None
    /\ returned[2][1].status = "error"
    /\ Len(posts) = 2
    /\ run.state = "Failed"

\* every agent holds the card of every other agent
MeshDiscovered ==
    \A a, b \in AgentIds :
        a # b => /\ b \in DOMAIN discovered_agents[a]
                 /\ discovered_agents[a][b] = agent_card(b)

\* every request of the run that was posted came back with status success
EveryHandlerSucceeded ==
    \A k \in 1..Len(posts) :
        k <= Len(returned) =>
            returned[k] # None /\ returned[k][1].status = "success"

\* C3: with the three agents added, pairwise discovery complete and every
\* handler succeeding, a run that has ended is Completed, has posted exactly
\* three tasks, to the researcher, the analyst and the reporter in that
\* order, and returns the result of the reporter's response.
C3_EndToEnd ==
    (/\ pc = "run_a2a_workflow"
     /\ run.state \in {"Completed", "Failed"}
     /\ Running = AgentIds
     /\ MeshDiscovered
     /\ EveryHandlerSucceeded)
    => /\ run.state = "Completed"
       /\ [k \in 1..Len(posts) |-> posts[k].data.target_agent]
            = <<ResearcherId, AnalystId, ReporterId>>
       /\ run.result = returned[3][1].result

\* C4: every TaskResponse the handler produces, on the success path and on
\* the error path, carries the task_id of the request it answers and the
\* handling agent's own agent_id as responding_agent.
C4_ResponseCorrelates ==
    (inbound.phase = "answered" /\ inbound.reply.body # None)
    => /\ Body(inbound.reply).task_id = inbound.data[1].task_id
       /\ Body(inbound.reply).responding_agent = inbound.self

C4_Witness ==
    /\ inbound.phase = "answered"
    /\ inbound.reply.body # None
    /\ Body(inbound.reply).status = "error"
    /\ inbound.data[1].task_id = 2
    /\ inbound.data[1].target_agent # inbound.self

\* C5: send_task_request never returns to its caller a TaskResponse whose
\* task_id differs from the task_id of the request it posted.
C5_MismatchRejected ==
    \A k \in 1..Len(returned) :
        returned[k] # None =>
            returned[k][1].task_id = posts[k].data.task_id

\* C6: every TaskResponse the handler produces has exactly one of result and
\* error populated: success has a result and no error, error has a
\* non-empty error and no result.
C6_SingleOf ==
    (inbound.phase = "answered" /\ inbound.reply.body # None)
    => LET response == Body(inbound.reply) IN
       /\ response.status = "success" =>
            response.result # None /\ response.error = None
       /\ response.status = "error" =>
            /\ response.error # None
            /\ response.error[1] # <<>>
            /\ response.result = None

\* C7: when the run failed on a TaskResponse of status error with message m,
\* the failure the run reports names the failing step and carries m.
C7_FailureCarriesCause ==
    (/\ run.state = "Failed"
     /\ returned # <<>>
     /\ Last(returned) # None
     /\ Last(returned)[1].status = "error"
     /\ Last(returned)[1].error # None)
    => /\ run.failure # None
       /\ Contains(run.failure[1], Steps[Len(returned)].failed)
       /\ Contains(run.failure[1], Last(returned)[1].error[1])

RequiredCapabilities == {"research", "analysis", "reporting"}

\* some agent added to the orchestrator lists the capability on its card
Advertised(capability) ==
    \E a \in Running : In(capability, agent_card(a).capabilities)

\* C8: a run started while no added agent advertises one of research,
\* analysis, reporting has failed with the missing-agents error by the time
\* it first suspends or ends, and has posted no task and made no other
\* outbound call.
C8_MissingCapabilityFailsAtOnce ==
    (/\ pc = "run_a2a_workflow"
     /\ \E capability \in RequiredCapabilities : ~Advertised(capability))
    => /\ run.state = "Failed"
       /\ run.failure = Some(<<"Missing required agents">>)
       /\ posts = <<>>
       /\ returned = <<>>
       /\ http.phase = "none"

C8_Witness ==
    /\ pc = "run_a2a_workflow"
    /\ Advertised("research")
    /\ Advertised("analysis")
    /\ ~Advertised("reporting")
    /\ run.state = "Failed"
    /\ posts = <<>>

WellFormedEndpoints ==
    {LocalUrl(ResearcherPort), LocalUrl(AnalystPort), LocalUrl(ReporterPort),
     RogueUrl}

\* the card invariants: capabilities non-empty, endpoint a well-formed URL
ValidCard(card) ==
    Len(card.capabilities) > 0 /\ card.endpoint \in WellFormedEndpoints

\* C10: no registry ever holds a card that violates the card invariants
\* (the registries start empty and an invalid card leaves them as they were).
C10_InvalidCardNeverStored ==
    \A a \in AgentIds :
        \A k \in DOMAIN discovered_agents[a] : ValidCard(discovered_agents[a][k])

\* the response to POST /discover is a failure for discover_agent: an
\* exception of the transport, a status other than 200, or a body from which
\* no AgentCard can be built
DiscoveryFailed(reply) ==
    \/ reply.raised
    \/ reply.status # HttpOK
    \/ reply.body = None
    \/ "agent_card" \notin DOMAIN Body(reply)
    \/ AgentCard(Body(reply).agent_card).raised

\* C11: when the POST /discover of a discover_agent call ends in a transport
\* failure, a status other than 200 or a malformed body, the call leaves the
\* caller's registry exactly as it was (the peer is not added, and every
\* lookup in it finds what it found before), and it reports the failure to
\* its caller by returning None.
C11_FailedDiscoveryLeavesRegistry ==
    [][(/\ http.phase = "reply"
        /\ http'.phase = "none"
        /\ DiscoveryFailed(http.reply))
       => /\ discovered_agents'[http.client] = discovered_agents[http.client]
          /\ pc = "discover_agent" =>
                (discovery' # None /\ discovery'[1].value = None)]_vars

C11_Witness ==
    /\ discovery # None
    /\ discovery[1].reply.status = HttpOK
    /\ DiscoveryFailed(discovery[1].reply)
    /\ discovery[1].value = None
    /\ GhostId \notin DOMAIN discovered_agents[discovery[1].client]

\* the agent whose card names url as its endpoint
AgentAt(url) == CHOOSE b \in AgentIds : agent_card(b).endpoint = url

\* C12: when agent X's discover_agent call to agent Y has completed with
\* HTTP 200, Y answered {status: "discovered", agent_card: Y's own card},
\* Y's registry holds X's card under X's agent_id, X's registry holds Y's
\* card under Y's agent_id, and the call returned Y's card.
C12_DiscoveryHandshake ==
    (/\ discovery # None
     /\ ~discovery[1].reply.raised
     /\ discovery[1].reply.status = HttpOK)
    => LET X == discovery[1].client
           Y == AgentAt(discovery[1].url)
       IN  /\ Body(discovery[1].reply) =
                 [status |-> "discovered", agent_card |-> asdict(agent_card(Y))]
           /\ X \in DOMAIN discovered_agents[Y]
           /\ discovered_agents[Y][X] = agent_card(X)
           /\ Y \in DOMAIN discovered_agents[X]
           /\ discovered_agents[X][Y] = agent_card(Y)
           /\ discovery[1].value = Some(agent_card(Y))

C12_Witness ==
    /\ discovery # None
    /\ discovery[1].reply.status = HttpOK
    /\ discovery[1].client = ResearcherId
    /\ discovery[1].value = Some(agent_card(AnalystId))
    /\ DOMAIN discovered_agents[AnalystId] = {ResearcherId}

\* registry[agent_id], as Optional
Lookup(registry, agent_id) ==
    IF agent_id \in DOMAIN registry THEN Some(registry[agent_id]) ELSE None

\* C13: for every valid AgentCard c, once a discovery exchange has stored c
\* (the server from the body posted to it, by an agent or by a foreign
\* client; the client from the acknowledgement it received), looking up
\* c.agent_id in that registry gives a card equal to c in every field.
C13_StoreLookupRoundTrip ==
    [][/\ (pc' = pc /\ http' = http /\ discovered_agents' # discovered_agents)
          => \A a \in AgentIds : \A c \in ForeignCards(a) :
                (ValidCard(c) /\ ForeignDiscover(a, c))
                => Lookup(discovered_agents'[a], c.agent_id) = Some(c)
       /\ (/\ http.phase = "none"
           /\ http'.phase = "reply"
           /\ http'.reply.status = HttpOK
           /\ ServedBy(http'.url) # {}
           /\ ValidCard(agent_card(http'.client)))
          => Lookup(discovered_agents'[AgentAt(http'.url)], http'.client)
               = Some(agent_card(http'.client))
       /\ (/\ http.phase = "reply"
           /\ http'.phase = "none"
           /\ ~DiscoveryFailed(http.reply)
           /\ ValidCard(AgentCard(Body(http.reply).agent_card).value))
          => LET c == AgentCard(Body(http.reply).agent_card).value IN
             Lookup(discovered_agents'[http.client], c.agent_id) = Some(c)]_vars

C13_Witness ==
    \E a \in AgentIds :
        /\ ValidCard(ForgedCard(a))
        /\ ForgedCard(a) # agent_card(a)
        /\ Lookup(discovered_agents[a], a) = Some(ForgedCard(a))
        /\ discovery # None
        /\ discovery[1].value = Some(ForgedCard(a))

\* the POST /task requests of the run that have not been answered yet
InFlight == IF http.phase = "request" THEN 1 ELSE 0

\* C14: no call is retried and every call has one outcome.  Of the POST
\* /task requests of a run no two carry the same task_id, each has ended
\* (response or failure) except at most the one in flight, and every ended
\* send_task_request call has handed exactly one value to its caller, a
\* TaskResponse or None; a discover_agent call whose POST /discover has
\* ended, however it ended, returns next and posts nothing more, and it
\* returns one value, a card or None.
C14_NoRetryOneOutcome ==
    /\ [](/\ \A i, j \in 1..Len(posts) :
                posts[i].data.task_id = posts[j].data.task_id => i = j
          /\ Len(posts) = Len(replies) + InFlight
          /\ \/ Len(returned) = Len(replies)
             \/ /\ Len(returned) = Len(replies) + 1
                /\ Last(returned) = None
                /\ InFlight = 0)
    /\ [][
          /\ Len(posts') <= Len(posts) + 1
          /\ (http.phase = "reply" /\ http' # http) => http'.phase = "none"
          /\ (pc = "discover_agent" /\ pc' # pc)
               => (discovery' # None /\ Len(discovery'[1].value) <= 1)
       ]_vars

C14_Witness ==
    /\ Len(posts) = 2
    /\ Len(replies) = 2
    /\ replies[2] = TransportError
    /\ returned[2] = None
    /\ run.state = "Failed"

\* C15: a peer that answered HTTP 200 with a TaskResponse of status error is
\* told apart from a peer that could not be reached: send_task_request
\* returns the TaskResponse, equal to the body in every field, as its
\* value; a failure of the transport or a status other than 200 makes it
\* return None.
C15_ReportedErrorIsReturned ==
    \A k \in 1..Len(replies) :
        /\ (/\ ~replies[k].raised
            /\ replies[k].status = HttpOK
            /\ DOMAIN Body(replies[k]) = TaskResponseFields
            /\ Body(replies[k]).status = "error")
           => /\ returned[k] # None
              /\ \A f \in TaskResponseFields : returned[k][1][f] = Body(replies[k])[f]
        /\ (replies[k].raised \/ replies[k].status # HttpOK)
           => returned[k] = None

C15_Witness ==
    /\ Len(replies) = 2
    /\ replies[2].status = HttpOK
    /\ Body(replies[2]).status = "error"
    /\ returned[2] # None
    /\ returned[2][1].error = Some(<<"rate limited">>)

\* C16: send_task_request never returns to its caller a TaskResponse that has
\* both result and error populated, or neither of them with a terminal
\* status (success, error).
C16_ClientSingleOf ==
    \A k \in 1..Len(returned) :
        returned[k] # None =>
            LET response == returned[k][1] IN
            /\ ~(response.result # None /\ response.error # None)
            /\ ~(/\ response.result = None
                 /\ response.error = None
                 /\ response.status \in {"success", "error"})

\* the last send_task_request call of the run returned without posting
ReturnedUnsent == Len(returned) = Len(posts) + 1

\* C17: every POST /task of a run went to a target whose card the sender's
\* discovered_agents holds, at the endpoint on that card; a
\* send_task_request call for a target that is not in discovered_agents
\* has posted nothing, has returned None and not a TaskResponse, and the
\* step in which it returned left every agent's card and registry as they
\* were.
C17_DiscoveryPrecedesExecution ==
    /\ [](/\ \A k \in 1..Len(posts) :
                LET sender == posts[k].data.requesting_agent
                    target == posts[k].data.target_agent
                IN  /\ target \in DOMAIN discovered_agents[sender]
                    /\ posts[k].url = discovered_agents[sender][target].endpoint
          /\ ReturnedUnsent =>
                LET self == Resolved[Steps[Len(returned)].role][1] IN
                /\ self \notin DOMAIN discovered_agents[self]
                /\ Last(returned) = None
                /\ Len(replies) = Len(posts)
                /\ http.phase = "none")
    /\ [][
          (~ReturnedUnsent /\ ReturnedUnsent')
          => /\ discovered_agents' = discovered_agents
             /\ self_agent_card' = self_agent_card
       ]_vars

C17_Witness ==
    /\ ReturnedUnsent
    /\ Len(posts) = 1
    /\ returned[1] # None
    /\ returned[1][1].status = "success"
    /\ MeshDiscovered

\* C18: a well-formed TaskRequest that was received is processed next and
\* answered after that, and the answer, once given, stays as it is: one
\* TaskResponse per request.  Its status is success when process_task
\* returned and error when it raised, never in_progress.
C18_ServerLifecycle ==
    /\ []((inbound.phase = "answered" /\ inbound.outcome # None)
          => /\ inbound.reply.status = HttpOK
             /\ inbound.reply.body # None
             /\ Body(inbound.reply).status \in {"success", "error"}
             /\ Body(inbound.reply).status = "success"
                   <=> ~inbound.outcome[1].raised)
    /\ [][
          /\ (inbound.phase = "received" /\ ~TaskRequest(inbound.data[1]).raised)
             => inbound'.phase = "processing"
          /\ inbound.phase = "processing"
             => (inbound'.phase = "answered" /\ inbound'.outcome # None)
          /\ inbound.phase = "answered" => inbound' = inbound
          /\ inbound'.data = inbound.data
       ]_vars

C18_Witness ==
    /\ inbound.phase = "answered"
    /\ inbound.outcome # None
    /\ ~inbound.outcome[1].raised
    /\ Body(inbound.reply).status = "success"

\* C19: every agent's own card is, in every state, the card it was
\* constructed with, whatever was served, discovered, posted or run; GET
\* /agent-card answers with that card, field for field, and a GET of
\* /agent-card or /health leaves every card and every registry as it was.
C19_OwnCardImmutable ==
    /\ [](self_agent_card = [a \in AgentIds |-> ConfiguredCard(a)])
    /\ [][
          /\ self_agent_card' = self_agent_card
          /\ (pc = "idle" /\ pc' = "get")
             => /\ discovered_agents' = discovered_agents
                /\ http'.reply.status = HttpOK
                /\ http'.path = "/agent-card"
                     => Body(http'.reply) = self_agent_card[http'.server]
                /\ http'.path = "/health"
                     => Body(http'.reply).agent = self_agent_card[http'.server].name
          /\ (pc = "get" /\ pc' = "idle")
             => discovered_agents' = discovered_agents
       ]_vars

C19_Witness ==
    /\ pc = "get"
    /\ http.path = "/agent-card"
    /\ Lookup(discovered_agents[http.server], http.server)
         = Some(ForgedCard(http.server))
    /\ Body(http.reply) = ConfiguredCard(http.server)

\* the keys under which two registries differ
ChangedKeys(before, after) ==
    {k \in DOMAIN before \cup DOMAIN after : Lookup(before, k) # Lookup(after, k)}

\* C20: in every registry every entry is kept under the agent_id of its
\* card, hence one entry per agent_id; a step never removes an entry and
\* changes at most one entry of a registry, and a discover_agent call that
\* returns a card whose agent_id the caller already knows puts that card in
\* the place of the entry and leaves every other entry as it was.
C20_RegistryKeying ==
    /\ [](\A a \in AgentIds : \A k \in DOMAIN discovered_agents[a] :
              discovered_agents[a][k].agent_id = k)
    /\ [][
          /\ \A a \in AgentIds :
                /\ DOMAIN discovered_agents[a] \subseteq DOMAIN discovered_agents'[a]
                /\ Cardinality(ChangedKeys(discovered_agents[a],
                                           discovered_agents'[a])) <= 1
          /\ (/\ http.phase = "reply"
              /\ http'.phase = "none"
              /\ ~DiscoveryFailed(http.reply)
              /\ Body(http.reply).agent_card.agent_id
                    \in DOMAIN discovered_agents[http.client])
             => LET c == AgentCard(Body(http.reply).agent_card).value IN
                discovered_agents'[http.client] =
                    [discovered_agents[http.client] EXCEPT ![c.agent_id] = c]
       ]_vars

C20_Witness ==
    \E a \in AgentIds :
        /\ DOMAIN discovered_agents[a] = {a, GhostId}
        /\ discovered_agents[a][a] = agent_card(a)
        /\ discovery # None
        /\ discovery[1].client = a
        /\ discovery[1].value = Some(agent_card(a))

(***************************************************************************)
(* Concurrent discovery on one agent.  The aiohttp server runs each        *)
(* POST /discover in a coroutine of its own, and the owner of the agent    *)
(* may have discover_agent calls in flight at the same time, all on one    *)
(* event loop: a coroutine runs from one await to the next without         *)
(* interruption, and a cancellation is delivered at an await.              *)
(* handle_discovery awaits request.json(); discover_agent awaits           *)
(* session.post and resp.json().                                           *)
(***************************************************************************)
\* the most coroutines that run on the agent together
MaxCoroutines == 3

\* the agent the coroutines run on
ConcurrentSelf == agents[1]

\* the card of a peer that came up again at another endpoint, as a later version
RevisedCard(a) == [ForgedCard(a) EXCEPT !.version = "2.0.0"]

\* the cards the peers of agent self announce
PeerCards(self) ==
    {agent_card(b) : b \in AgentIds \ {self}}
    \cup {RevisedCard(b) : b \in AgentIds \ {self, ReporterId}}

\* what a peer answers to POST /discover
PeerAnswers(self) ==
    {[raised |-> FALSE, status |-> HttpOK,
      body |-> Some([status |-> "discovered", agent_card |-> asdict(c)])] :
        c \in PeerCards(self)}
    \cup {[raised |-> FALSE, status |-> HttpUnavailable, body |-> None]}

SuspensionPoints == {"request.json", "session.post", "resp.json"}

InitConcurrent ==
    /\ agents \in {<<a>> : a \in {ResearcherId, AnalystId}}
    /\ discovered_agents = [a \in AgentIds |-> <<>>]
    /\ pc = "idle"
    /\ loop = <<0, 0>>
    /\ http = NoHttp
    /\ run = NoRun
    /\ posts = <<>>
    /\ returned = <<>>
    /\ faults = 0
    /\ inbound = NoInbound
    /\ self_agent_card = [a \in AgentIds |-> ConfiguredCard(a)]
    /\ discovery = None
    /\ replies = <<>>
    /\ discover_calls = 0
    /\ coroutines = <<>>
    /\ tracer = None
    /\ pure_call = None
    /\ graph = None

\* what the coroutines of discovery leave as it is
ConcurrentFrame ==
    UNCHANGED <<agents, pc, loop, http, run, posts, returned, faults, inbound,
                self_agent_card, tracer, discovery, replies, discover_calls, pure_call,
                graph>>

\* a POST /discover arrives: handle_discovery starts and awaits the body
HandleDiscoveryStart(card) ==
    /\ Len(coroutines) < MaxCoroutines
    /\ coroutines' = Append(coroutines,
                            [kind |-> "handle_discovery", at |-> "request.json",
                             data |-> asdict(card), result |-> None])
    /\ UNCHANGED discovered_agents
    /\ ConcurrentFrame

\* the body is read: handle_discovery runs to its return
HandleDiscoveryBodyRead(k) ==
    LET self == ConcurrentSelf
        c == coroutines[k]
        handled == handle_discovery(self, c.data, discovered_agents[self])
    IN
    /\ c.kind = "handle_discovery"
    /\ c.at = "request.json"
    /\ discovered_agents' = [discovered_agents EXCEPT ![self] = handled.registry]
    /\ coroutines' = [coroutines EXCEPT ![k].at = "returned",
                                        ![k].result = Some(handled.reply)]
    /\ ConcurrentFrame

\* discover_agent is called and awaits session.post; answer is what the
\* peer at the target will respond
DiscoverAgentStart(answer) ==
    /\ Len(coroutines) < MaxCoroutines
    /\ coroutines' = Append(coroutines,
                            [kind |-> "discover_agent", at |-> "session.post",
                             data |-> answer, result |-> None])
    /\ UNCHANGED discovered_agents
    /\ ConcurrentFrame

\* the response's status line arrived: any status but 200 returns None
DiscoverAgentPosted(k) ==
    LET c == coroutines[k] IN
    /\ c.kind = "discover_agent"
    /\ c.at = "session.post"
    /\ coroutines' = [coroutines EXCEPT
                        ![k].at = IF c.data.status = HttpOK THEN "resp.json"
                                  ELSE "returned",
                        ![k].result = IF c.data.status = HttpOK THEN None
                                      ELSE Some(None)]
    /\ UNCHANGED discovered_agents
    /\ ConcurrentFrame

\* the response's body is read: discover_agent runs to its return
DiscoverAgentResponseRead(k) ==
    LET self == ConcurrentSelf
        c == coroutines[k]
        after == discover_agent_return(c.data, discovered_agents[self])
    IN
    /\ c.kind = "discover_agent"
    /\ c.at = "resp.json"
    /\ discovered_agents' = [discovered_agents EXCEPT ![self] = after.registry]
    /\ coroutines' = [coroutines EXCEPT ![k].at = "returned",
                                        ![k].result = Some(after.value)]
    /\ ConcurrentFrame

\* asyncio.CancelledError is raised at the await the coroutine is suspended
\* in; it is not an Exception, so discover_agent does not catch it
Cancel(k) ==
    /\ coroutines[k].at \in SuspensionPoints
    /\ coroutines' = [coroutines EXCEPT ![k].at = "cancelled"]
    /\ UNCHANGED discovered_agents
    /\ ConcurrentFrame

NextConcurrent ==
    \/ \E c \in PeerCards(ConcurrentSelf) : HandleDiscoveryStart(c)
    \/ \E r \in PeerAnswers(ConcurrentSelf) : DiscoverAgentStart(r)
    \/ \E k \in DOMAIN coroutines : HandleDiscoveryBodyRead(k)
    \/ \E k \in DOMAIN coroutines : DiscoverAgentPosted(k)
    \/ \E k \in DOMAIN coroutines : DiscoverAgentResponseRead(k)
    \/ \E k \in DOMAIN coroutines : Cancel(k)

SpecConcurrent == InitConcurrent /\ [][NextConcurrent]_vars

\* the card coroutine c delivers to the registry when it completes
Delivered(c) ==
    IF c.kind = "handle_discovery" THEN AgentCard(c.data).value
    ELSE AgentCard(c.data.body[1].agent_card).value

\* the coroutines whose exchange completed: the handler answered 200, or
\* discover_agent returned a card
CompletedExchanges ==
    {k \in DOMAIN coroutines :
        /\ coroutines[k].at = "returned"
        /\ IF coroutines[k].kind = "handle_discovery"
           THEN coroutines[k].result[1].status = HttpOK
           ELSE coroutines[k].result[1] # None}

\* C21: however the inbound POST /discover handlers and the outbound
\* discover_agent calls of one agent interleave at their awaits, and
\* whichever of them are cancelled there, every peer whose exchange
\* completed is in the registry, and every registry entry is one whole card
\* that a completed exchange delivered under that agent_id
C21_ConcurrentDiscoverySerialised ==
    LET registry == discovered_agents[ConcurrentSelf] IN
    agents # <<>> =>
        /\ \A k \in CompletedExchanges :
              Delivered(coroutines[k]).agent_id \in DOMAIN registry
        /\ \A id \in DOMAIN registry :
              \E k \in CompletedExchanges :
                 /\ Delivered(coroutines[k]).agent_id = id
                 /\ registry[id] = Delivered(coroutines[k])

\* two exchanges about one peer completed with different cards while a third
\* coroutine was cancelled at its await
C21_Witness ==
    /\ \E j, k \in CompletedExchanges :
          /\ coroutines[j].kind = "handle_discovery"
          /\ coroutines[k].kind = "discover_agent"
          /\ Delivered(coroutines[j]).agent_id = Delivered(coroutines[k]).agent_id
          /\ Delivered(coroutines[j]) # Delivered(coroutines[k])
    /\ \E k \in DOMAIN coroutines : coroutines[k].at = "cancelled"

(***************************************************************************)
(* The closed world with the scheduling the pipeline relies on: an awaited *)
(* POST /task ends, by a response, a refused connection or the client's    *)
(* timeout, so the step that waits for it is eventually taken.             *)
(***************************************************************************)
SpecFair == Init /\ [][Next]_vars /\ WF_vars(RunStep)

Terminal == {"Completed", "Failed"}

\* the moves of a run's state, in pipeline order
Forward ==
    {<<"NotStarted", "Researching">>, <<"Researching", "Analyzing">>,
     <<"Analyzing", "Reporting">>, <<"Reporting", "Completed">>}

\* C22: a run's state moves only forward along NotStarted, Researching,
\* Analyzing, Reporting, Completed, or from a state that is not terminal to
\* Failed; once Completed or Failed the run posts nothing more and changes
\* only by being over; and if every awaited POST /task ends, a run that was
\* started reaches Completed or Failed
C22_PipelineTerminates ==
    /\ [][
          /\ run'.state # run.state =>
                \/ <<run.state, run'.state>> \in Forward
                \/ run.state \notin Terminal /\ run'.state = "Failed"
                \/ run.state \in Terminal /\ run' = NoRun /\ pc' = "idle"
          /\ run.state \in Terminal =>
                /\ posts' = posts \/ posts' = <<>>
                /\ http' = http
                /\ run' = run \/ run' = NoRun
       ]_vars
    /\ (pc = "run_a2a_workflow") ~> (run.state \in Terminal)

\* a run that went through every state of the pipeline
C22_Witness ==
    /\ run.state = "Completed"
    /\ Len(posts) = Len(Steps)

\* what the TaskResponse of step k of the current run carried under the key
\* the workflow reads
Carried(k) == returned[k][1].result[1][ResultKey(k)]

CodecMappings ==
    {[topic |-> "X"], [research_data |-> "c1", agent_id |-> ResearcherId],
     [final_report |-> "c22", report_length |-> 3],
     [report |-> [final_report |-> "c22", sections |-> <<"c1", "c22">>]]}

TaskRequestValues ==
    [task_id : {1, 2}, requesting_agent : {ResearcherId, "client-1"},
     target_agent : {ResearcherId, ReporterId}, task_type : {"research", "translate"},
     parameters : CodecMappings, timestamp : {Now},
     callback_url : {None, Some("http://localhost:9000/callback")}]

TaskResponseValues ==
    [task_id : {1, 2}, responding_agent : {ResearcherId, ReporterId},
     status : {"success", "error", "in_progress"},
     result : {None} \cup {Some(m) : m \in CodecMappings},
     error : {None, Some(<<>>), Some(<<"rate limited">>)},
     timestamp : {None, Some(Now)}]

\* the constructor of the type named
Construct(type, data) ==
    IF type = "TaskRequest" THEN TaskRequest(data) ELSE TaskResponse(data)

InitCodec ==
    /\ agents = <<>>
    /\ discovered_agents = [a \in AgentIds |-> <<>>]
    /\ pc = "idle"
    /\ loop = <<0, 0>>
    /\ http = NoHttp
    /\ run = NoRun
    /\ posts = <<>>
    /\ returned = <<>>
    /\ faults = 0
    /\ inbound = NoInbound
    /\ self_agent_card = [a \in AgentIds |-> ConfiguredCard(a)]
    /\ discovery = None
    /\ replies = <<>>
    /\ discover_calls = 0
    /\ coroutines = <<>>
    /\ tracer = None
    /\ graph = None
    /\ \/ \E v \in TaskRequestValues :
            pure_call = [type |-> "TaskRequest", value |-> v, wire |-> None,
                         parsed |-> None, again |-> None]
       \/ \E v \in TaskResponseValues :
            pure_call = [type |-> "TaskResponse", value |-> v, wire |-> None,
                         parsed |-> None, again |-> None]

\* what the codec leaves as it is
CodecFrame ==
    UNCHANGED <<agents, discovered_agents, pc, loop, http, run, posts, returned,
                faults, inbound, self_agent_card, tracer, discovery, replies,
                discover_calls, coroutines, graph>>

\* json=asdict(task_request), web.json_response(asdict(response))
Serialise ==
    /\ pure_call.wire = None
    /\ pure_call' = [pure_call EXCEPT !.wire = Some(asdict(pure_call.value))]
    /\ CodecFrame

\* TaskRequest(**data), TaskResponse(**data)
ParseBack ==
    /\ pure_call.wire # None
    /\ pure_call.parsed = None
    /\ pure_call' = [pure_call EXCEPT
                        !.parsed = Some(Construct(pure_call.type, pure_call.wire[1]))]
    /\ CodecFrame

\* asdict of the value parsed
SerialiseAgain ==
    /\ pure_call.parsed # None
    /\ ~pure_call.parsed[1].raised
    /\ pure_call.again = None
    /\ pure_call' = [pure_call EXCEPT
                        !.again = Some(asdict(pure_call.parsed[1].value))]
    /\ CodecFrame

NextCodec == Serialise \/ ParseBack \/ SerialiseAgain

SpecCodec == InitCodec /\ [][NextCodec]_vars

NextMesh ==
    \/ \E a \in AgentIds : add_agent(a)
    \/ DiscoverAllStart
    \/ DiscoverAllPost
    \/ DiscoverAllReceive

SpecMesh == Init /\ [][NextMesh]_vars

\* C26: when discover_all_agents over n agents ends and every exchange
\* succeeded, it has made exactly n * (n - 1) discover_agent calls and the
\* registry of each agent holds exactly the cards of the other n - 1 agents;
\* no registry ever holds the card of the agent it belongs to
C26_FullMesh ==
    /\ [][
          (pc = "discover_all_agents" /\ pc' = "idle" /\ faults' = 0) =>
             /\ discover_calls = Len(agents) * (Len(agents) - 1)
             /\ \A a \in Running :
                   /\ DOMAIN discovered_agents'[a] = Running \ {a}
                   /\ \A b \in Running \ {a} :
                         discovered_agents'[a][b] = agent_card(b)
       ]_vars
    /\ [](\A a \in AgentIds : a \notin DOMAIN discovered_agents[a])

\* discover_all_agents over three agents has ended without a fault
C26_Witness ==
    /\ pc = "idle"
    /\ faults = 0
    /\ Len(agents) = 3
    /\ \A a \in AgentIds : DOMAIN discovered_agents[a] = AgentIds \ {a}

CapabilityLists ==
    {ResearcherCard.capabilities, AnalystCard.capabilities, ReporterCard.capabilities,
     <<"research", "analysis">>, <<"analysis", "reporting">>,
     <<"research", "analysis", "reporting">>, <<"documentation">>}

InitCapabilities ==
    /\ agents = <<>>
    /\ discovered_agents = [a \in AgentIds |-> <<>>]
    /\ pc = "idle"
    /\ loop = <<0, 0>>
    /\ http = NoHttp
    /\ run = NoRun
    /\ posts = <<>>
    /\ returned = <<>>
    /\ faults = 0
    /\ inbound = NoInbound
    /\ \E capabilities \in [AgentIds -> CapabilityLists] :
          self_agent_card =
             [a \in AgentIds |->
                [ConfiguredCard(a) EXCEPT !.capabilities = capabilities[a]]]
    /\ discovery = None
    /\ replies = <<>>
    /\ discover_calls = 0
    /\ coroutines = <<>>
    /\ tracer = None
    /\ pure_call = None
    /\ graph = None

NextCapabilities ==
    \/ \E a \in AgentIds : add_agent(a)
    \/ \E q \in Queries : RunStart(q)
    \/ RunReturn

SpecCapabilities == InitCapabilities /\ [][NextCapabilities]_vars

\* C28: a run started while each of research, analysis and reporting is
\* advertised by some added agent does not fail with the missing-agents
\* error, whether one agent advertises several of the three or several
\* agents advertise the same one
C28_CapabilityResolutionComplete ==
    (/\ pc = "run_a2a_workflow"
     /\ \A capability \in RequiredCapabilities : Advertised(capability))
    => run.failure # Some(<<"Missing required agents">>)

\* C29: among the agents of the program, when X's discover_agent call
\* stores Y's card in X's registry, Y's registry already holds X (the server
\* stored the requester before it answered), and no registry ever loses a
\* key, so "X holds Y by its own call" implies "Y holds X" from then on.
\* The converse is not required: see the witness, where the acknowledgement
\* was lost, Y holds X and X's registry is as it was.
C29_DiscoveryAsymmetry ==
    /\ [][
          (/\ http.phase = "reply"
           /\ http'.phase = "none"
           /\ ~DiscoveryFailed(http.reply)) =>
             LET X == http.client
                 Y == AgentCard(Body(http.reply).agent_card).value.agent_id
             IN  /\ Y \in DOMAIN discovered_agents'[X]
                 /\ X \in DOMAIN discovered_agents[Y]
                 /\ X \in DOMAIN discovered_agents'[Y]
       ]_vars
    /\ [][
          \A a \in AgentIds :
             DOMAIN discovered_agents[a] \subseteq DOMAIN discovered_agents'[a]
       ]_vars

\* X's call to Y returned None after the answer was lost: Y holds X, X does
\* not hold Y
C29_Witness ==
    /\ discovery # None
    /\ discovery[1].reply.raised
    /\ discovery[1].value = None
    /\ LET X == discovery[1].client
           Y == AgentAt(discovery[1].url)
       IN  /\ X # Y
           /\ X \in DOMAIN discovered_agents[Y]
           /\ Y \notin DOMAIN discovered_agents[X]

(***************************************************************************)
(* The state-graph workflow of main.py and local_main.py: three nodes over *)
(* one AgentState, entered at research, with the router on the edges out   *)
(* of research and analysis and a plain edge from reporting to END.        *)
(* workflow.invoke runs the graph to its end in the caller's thread; an    *)
(* exception in a node leaves invoke.  local_main.py logs each action of   *)
(* an agent besides.                                                       *)
(***************************************************************************)
END == "__end__"

Programs == {"main.py", "local_main.py"}

GraphQueries == {"X", "What are the benefits of using OpenTelemetry for AI applications?"}

HumanMessage(content) == [type |-> "human", content |-> content]

AIMessage(content) == [type |-> "ai", content |-> content]

\* AgentState(messages=..., current_agent=...): the other fields at their defaults
AgentState(messages, current_agent) ==
    [messages |-> messages, current_agent |-> current_agent, task_complete |-> FALSE,
     research_data |-> "", analysis_result |-> ""]

\* the prompt an agent builds, as its fragments
Prompt(name, state) ==
    CASE name = "researcher" ->
           <<"Research the topic: ", state.messages[Len(state.messages)].content,
             ". Provide 3 key facts.">>
      [] name = "analyst" ->
           <<"Analyze this research data and provide insights: ", state.research_data>>
      [] name = "reporter" ->
           <<"Create a brief report from this analysis: ", state.analysis_result>>

\* as process, with the researcher handing over to the reporter
process_skipping_analyst(name, state, llm) ==
    IF llm.raised
    THEN [raised |-> TRUE, message |-> llm.message]
    ELSE [raised |-> FALSE,
          state |->
            CASE name = "researcher" ->
                   [state EXCEPT !.research_data = llm.content,
                                 !.current_agent = "reporter"]
              [] name = "analyst" ->
                   [state EXCEPT !.analysis_result = llm.content,
                                 !.current_agent = "reporter"]
              [] name = "reporter" ->
                   [state EXCEPT !.messages = Append(@, AIMessage(llm.content)),
                                 !.task_complete = TRUE]
              [] OTHER -> state]

\* SimpleAgent.process and LocalAgent.process of the agent called name, with
\* llm what self.llm.invoke does: the state returned, or the exception
process(name, state, llm) ==
    IF llm.raised
    THEN [raised |-> TRUE, message |-> llm.message]
    ELSE [raised |-> FALSE,
          state |->
            CASE name = "researcher" ->
                   [state EXCEPT !.research_data = llm.content,
                                 !.current_agent = "analyst"]
              [] name = "analyst" ->
                   [state EXCEPT !.analysis_result = llm.content,
                                 !.current_agent = "reporter"]
              [] name = "reporter" ->
                   [state EXCEPT !.messages = Append(@, AIMessage(llm.content)),
                                 !.task_complete = TRUE]
              [] OTHER -> state]

\* the actions LocalAgent.process logs, up to the exception if llm raises
AgentLog(name, llm) ==
    <<"started_processing", "sending_llm_request">>
    \o (IF llm.raised THEN <<>>
        ELSE <<CASE name = "researcher" -> "completed_research"
                 [] name = "analyst" -> "completed_analysis"
                 [] name = "reporter" -> "completed_report",
               "finished_processing">>)

\* the router of create_workflow
router(state) ==
    IF state.current_agent = "analyst" THEN "analysis"
    ELSE IF state.current_agent = "reporter" THEN "reporting"
    ELSE END

InitGraph ==
    /\ agents = <<>>
    /\ discovered_agents = [a \in AgentIds |-> <<>>]
    /\ pc = "idle"
    /\ loop = <<0, 0>>
    /\ http = NoHttp
    /\ run = NoRun
    /\ posts = <<>>
    /\ returned = <<>>
    /\ faults = 0
    /\ inbound = NoInbound
    /\ self_agent_card = [a \in AgentIds |-> ConfiguredCard(a)]
    /\ discovery = None
    /\ replies = <<>>
    /\ discover_calls = 0
    /\ coroutines = <<>>
    /\ tracer = None
    /\ pure_call = None
    /\ \E program \in Programs, query \in GraphQueries :
          graph = [program |-> program, at |-> "research",
                   state |-> AgentState(<<HumanMessage(query)>>, "researcher"),
                   executed |-> <<>>, log |-> <<>>, failure |-> None]

\* what the workflow leaves as it is
GraphFrame ==
    UNCHANGED <<agents, discovered_agents, pc, loop, http, run, posts, returned,
                faults, inbound, self_agent_card, tracer, discovery, replies,
                discover_calls, coroutines, pure_call>>

\* the graph runs node, which calls process of the agent called name; the
\* state the node returns is the graph's state, an exception ends invoke
Node(node, name) ==
    /\ graph.at = node
    /\ \E llm \in LlmOutcomes :
         LET out == process(name, graph.state, llm) IN
         graph' = [graph EXCEPT
                     !.executed = Append(@, [node |-> node,
                                             prompt |-> Prompt(name, graph.state)]),
                     !.log = IF graph.program = "local_main.py"
                             THEN @ \o AgentLog(name, llm) ELSE @,
                     !.state = IF out.raised THEN @ ELSE out.state,
                     !.failure = IF out.raised THEN Some(out.message) ELSE None,
                     !.at = IF out.raised THEN "raised"
                            ELSE IF node = "reporting" THEN "edge"
                            ELSE "conditional_edge"]
    /\ GraphFrame

research_node == Node("research", "researcher")

analysis_node == Node("analysis", "analyst")

reporting_node == Node("reporting", "reporter")

\* add_conditional_edges(node, router): the router names the next node
ConditionalEdge ==
    /\ graph.at = "conditional_edge"
    /\ graph' = [graph EXCEPT !.at = router(graph.state)]
    /\ GraphFrame

\* add_edge("reporting", END)
Edge ==
    /\ graph.at = "edge"
    /\ graph' = [graph EXCEPT !.at = END]
    /\ GraphFrame

NextGraph ==
    \/ research_node
    \/ analysis_node
    \/ reporting_node
    \/ ConditionalEdge
    \/ Edge

SpecGraph == InitGraph /\ [][NextGraph]_vars /\ WF_vars(NextGraph)

NodeOrder == <<"research", "analysis", "reporting">>

\* values of current_agent, the three agents' names and others
CurrentAgents == {"researcher", "analyst", "reporter", "editor", ""}

\* C30: the workflow started with current_agent = researcher runs the nodes
\* research, analysis, reporting in that order and each at most once; the
\* analyst is prompted with the research_data the research node set and the
\* reporter with the analysis_result the analysis node set; it reaches END
\* only after all three with task_complete true and the report as the last
\* message; a node whose LLM call raises ends it with no node after; the
\* router names END for every current_agent but analyst and reporter; and
\* the workflow always ends
C30_StateGraphOrder ==
    /\ [](LET executed == graph.executed
              state == graph.state
          IN  /\ Len(executed) <= Len(NodeOrder)
              /\ \A k \in 1..Len(executed) : executed[k].node = NodeOrder[k]
              /\ Len(executed) >= 2 =>
                    /\ state.research_data \in Contents
                    /\ executed[2].prompt[2] = state.research_data
              /\ Len(executed) >= 3 =>
                    /\ state.analysis_result \in Contents
                    /\ executed[3].prompt[2] = state.analysis_result
              /\ state.task_complete => Len(executed) = Len(NodeOrder)
              /\ graph.at = END =>
                    /\ Len(executed) = Len(NodeOrder)
                    /\ state.task_complete
                    /\ graph.failure = None
                    /\ state.messages[Len(state.messages)].type = "ai"
              /\ graph.at = "raised" =>
                    /\ graph.failure # None
                    /\ ~state.task_complete
              /\ \A c \in CurrentAgents :
                    router([state EXCEPT !.current_agent = c]) =
                       (CASE c = "analyst" -> "analysis"
                          [] c = "reporter" -> "reporting"
                          [] OTHER -> END))
    /\ [][graph.at \in {END, "raised"} => graph' = graph]_vars
    /\ <>(graph.at \in {END, "raised"})

\* local_main.py ran all three nodes to END and logged their actions
C30_Witness ==
    /\ graph # None
    /\ graph.at = END
    /\ graph.program = "local_main.py"
    /\ graph.state.task_complete
    /\ Len(graph.log) = 12
    /\ graph.state.research_data # graph.state.analysis_result

(***************************************************************************)
(* LocalTracer of local_main.py.  tracer.trace(func_name) wraps a function *)
(* so that a call writes a start record, runs the function, and writes a   *)
(* success record when it returned or an error record when it raised an    *)
(* Exception, which it raises again.  An exception that is not an          *)
(* Exception (KeyboardInterrupt while the LLM is awaited, SystemExit) is    *)
(* not caught by "except Exception" and leaves the wrapper with no record. *)
(* run_local_demo is traced as run_workflow and calls, through the graph,  *)
(* LocalAgent.process, traced as agent_process, once per node.             *)
(***************************************************************************)
TracedWorkflow == "run_workflow"

TracedProcess == "agent_process"

\* args is str(args)[:200], of arguments shorter than that
StartRecord(func_name, args) ==
    [function |-> func_name, type |-> "start", args |-> args]

\* the agents of the three nodes, in the order the graph calls them
ProcessAgents == <<"researcher", "analyst", "reporter">>

SuccessRecord(func_name, result) ==
    [function |-> func_name, type |-> "success", result_preview |-> result]

ErrorRecord(func_name, e) ==
    [function |-> func_name, type |-> "error", error |-> e.message]

\* how a traced function ends: it returns a value, raises an Exception with
\* str(e) = message, or is left by an exception that is not an Exception
TracedOutcomes ==
    [kind : {"return"}, value : Contents]
    \cup [kind : {"Exception"}, message : LlmErrors]
    \cup [kind : {"KeyboardInterrupt"}, message : {<<>>}]

\* as wrapper_exit, writing the success record in a finally clause
wrapper_exit_finally(log, func_name, outcome) ==
    CASE outcome.kind = "return" ->
           Append(log, SuccessRecord(func_name, outcome.value))
      [] outcome.kind = "Exception" ->
           Append(Append(log, ErrorRecord(func_name, outcome)),
                  SuccessRecord(func_name, outcome.message))
      [] OTHER -> Append(log, SuccessRecord(func_name, outcome.message))

\* the wrapper after func ended with outcome: the log it leaves
wrapper_exit(log, func_name, outcome) ==
    CASE outcome.kind = "return" ->
           Append(log, SuccessRecord(func_name, outcome.value))
      [] outcome.kind = "Exception" ->
           Append(log, ErrorRecord(func_name, outcome))
      [] OTHER -> log

\* the graph has three nodes, each calling process once
MaxProcessCalls == Len(ProcessAgents)

InitTrace ==
    /\ agents = <<>>
    /\ discovered_agents = [a \in AgentIds |-> <<>>]
    /\ pc = "idle"
    /\ loop = <<0, 0>>
    /\ http = NoHttp
    /\ run = NoRun
    /\ posts = <<>>
    /\ returned = <<>>
    /\ faults = 0
    /\ inbound = NoInbound
    /\ self_agent_card = [a \in AgentIds |-> ConfiguredCard(a)]
    /\ discovery = None
    /\ replies = <<>>
    /\ discover_calls = 0
    /\ coroutines = <<>>
    /\ pure_call = None
    /\ graph = None
    /\ tracer = [log |-> <<>>, stack |-> <<>>, pending |-> None, calls |-> 0]

\* what the tracer leaves as it is
TraceFrame ==
    UNCHANGED <<agents, discovered_agents, pc, loop, http, run, posts, returned,
                faults, inbound, self_agent_card, discovery, replies,
                discover_calls, coroutines, pure_call, graph>>

\* the wrapper of func_name is entered: the start record, then func runs
WrapperEnter(func_name, args) ==
    /\ tracer' = [tracer EXCEPT !.log = Append(@, StartRecord(func_name, args)),
                                !.stack = Append(@, func_name)]
    /\ TraceFrame

\* __main__ calls run_local_demo(query)
CallRunLocalDemo ==
    /\ tracer.stack = <<>>
    /\ tracer.log = <<>>
    /\ tracer.pending = None
    /\ \E query \in GraphQueries : WrapperEnter(TracedWorkflow, query)

\* a node of the graph calls process of its agent
CallProcess ==
    /\ tracer.stack = <<TracedWorkflow>>
    /\ tracer.pending = None
    /\ tracer.calls < MaxProcessCalls
    /\ WrapperEnter(TracedProcess, ProcessAgents[tracer.calls + 1])

\* the function on top ends with outcome and its wrapper is left; what it
\* raised is in flight in the caller
WrapperExit(outcome) ==
    LET func_name == tracer.stack[Len(tracer.stack)] IN
    /\ tracer' = [tracer EXCEPT
                    !.log = wrapper_exit(@, func_name, outcome),
                    !.stack = SubSeq(@, 1, Len(@) - 1),
                    !.pending = IF outcome.kind = "return" THEN None
                                ELSE Some(outcome),
                    !.calls = IF func_name = TracedProcess /\ outcome.kind = "return"
                              THEN @ + 1 ELSE @]
    /\ TraceFrame

\* process returns the state, or self.llm.invoke raises, or the user
\* interrupts the call
ProcessEnds ==
    /\ tracer.stack # <<>>
    /\ tracer.stack[Len(tracer.stack)] = TracedProcess
    /\ \E outcome \in TracedOutcomes : WrapperExit(outcome)

\* run_local_demo returns the result after the last node, or is interrupted
\* between two nodes
RunLocalDemoEnds ==
    /\ tracer.stack = <<TracedWorkflow>>
    /\ tracer.pending = None
    /\ \E outcome \in TracedOutcomes :
         /\ outcome.kind # "Exception"
         /\ outcome.kind = "return" => tracer.calls = MaxProcessCalls
         /\ WrapperExit(outcome)

\* an exception in flight leaves run_local_demo, which catches nothing
Propagate ==
    /\ tracer.stack # <<>>
    /\ tracer.pending # None
    /\ WrapperExit(tracer.pending[1])

NextTrace ==
    \/ CallRunLocalDemo
    \/ CallProcess
    \/ ProcessEnds
    \/ RunLocalDemoEnds
    \/ Propagate

SpecTrace == InitTrace /\ [][NextTrace]_vars

\* the starts of log that no later record of log ends, oldest first, with
\* "unmatched" put on top when a success or error record finds no start of
\* its function on top
RECURSIVE OpenStarts(_)
OpenStarts(log) ==
    IF log = <<>> THEN <<>>
    ELSE LET before == OpenStarts(SubSeq(log, 1, Len(log) - 1))
             record == log[Len(log)]
         IN  IF record.type = "start" THEN Append(before, record.function)
             ELSE IF before # <<>> /\ before[Len(before)] = record.function
             THEN SubSeq(before, 1, Len(before) - 1)
             ELSE Append(before, "unmatched")

\* C31 as stated: every call of a traced function writes one start record
\* and, when it ends, one terminating record, success if it returned and
\* error if it raised, the exception going on to the caller as it was; the
\* open starts of the log are the calls in progress
C31_TraceBracketing ==
    /\ [][
          /\ Len(tracer'.stack) > Len(tracer.stack) =>
                /\ Len(tracer'.log) = Len(tracer.log) + 1
                /\ SubSeq(tracer'.log, 1, Len(tracer.log)) = tracer.log
                /\ tracer'.log[Len(tracer'.log)].function =
                      tracer'.stack[Len(tracer'.stack)]
                /\ tracer'.log[Len(tracer'.log)].type = "start"
          /\ Len(tracer'.stack) < Len(tracer.stack) =>
                /\ Len(tracer'.log) = Len(tracer.log) + 1
                /\ tracer'.log[Len(tracer'.log)].function =
                      tracer.stack[Len(tracer.stack)]
                /\ tracer'.log[Len(tracer'.log)].type =
                      (IF tracer'.pending = None THEN "success" ELSE "error")
       ]_vars
    /\ [](OpenStarts(tracer.log) = tracer.stack)

\* C31 as amended: a call writes one start record; when it ends by a return
\* it writes one success record, when it ends by an Exception one error
\* record with str(e) and the same exception goes on to the caller, and when
\* it is left by an exception that is not an Exception it writes nothing and
\* its start stays open.  The log is well nested: a success or error record
\* always ends the innermost open start, of its own function, and the open
\* starts are the calls in progress, followed by the calls such an exception
\* left.
C31_TraceBracketingOfExceptions ==
    /\ [][
          /\ Len(tracer'.stack) > Len(tracer.stack) =>
                /\ Len(tracer'.log) = Len(tracer.log) + 1
                /\ SubSeq(tracer'.log, 1, Len(tracer.log)) = tracer.log
                /\ tracer'.log[Len(tracer'.log)].function =
                      tracer'.stack[Len(tracer'.stack)]
                /\ tracer'.log[Len(tracer'.log)].type = "start"
          /\ Len(tracer'.stack) < Len(tracer.stack) =>
                LET func_name == tracer.stack[Len(tracer.stack)] IN
                /\ tracer'.pending = None =>
                      /\ Len(tracer'.log) = Len(tracer.log) + 1
                      /\ SubSeq(tracer'.log, 1, Len(tracer.log)) = tracer.log
                      /\ tracer'.log[Len(tracer'.log)].function = func_name
                      /\ tracer'.log[Len(tracer'.log)].type = "success"
                /\ (tracer'.pending # None /\ tracer'.pending[1].kind = "Exception") =>
                      /\ tracer'.log =
                            Append(tracer.log, ErrorRecord(func_name, tracer'.pending[1]))
                      /\ tracer.pending # None => tracer'.pending = tracer.pending
                /\ (tracer'.pending # None /\ tracer'.pending[1].kind # "Exception") =>
                      /\ tracer'.log = tracer.log
                      /\ tracer.pending # None => tracer'.pending = tracer.pending
       ]_vars
    /\ [](LET open == OpenStarts(tracer.log) IN
          /\ \A k \in 1..Len(open) : open[k] # "unmatched"
          /\ Len(open) >= Len(tracer.stack)
          /\ SubSeq(open, 1, Len(tracer.stack)) = tracer.stack
          /\ open # tracer.stack =>
                tracer.pending # None /\ tracer.pending[1].kind # "Exception")

\* the workflow ran two nodes and the third raised an Exception, which left
\* run_local_demo too: four pairs of records, the last two ending in error
C31_Witness ==
    /\ tracer # None
    /\ tracer.stack = <<>>
    /\ Len(tracer.log) = 8
    /\ tracer.pending # None
    /\ tracer.pending[1].kind = "Exception"
    /\ tracer.log[7].type = "error"
    /\ tracer.log[8] = ErrorRecord(TracedWorkflow, tracer.pending[1])

=============================================================================
